---- MODULE Spec2Model ----
(***************************************************************************)
(* State-machine model of the NAO architecture search of NAS4Text:         *)
(* nao_train.py, class NAOTrainer and function nao_search_main.            *)
(*                                                                         *)
(* Objects (architectures, child networks, optimizers, schedulers, batch   *)
(* iterators) are modelled by reference: every construction yields a fresh *)
(* positive integer; reference 0 is the object installed at construction   *)
(* of the trainer (the shared model, the trainer's own optimizer and       *)
(* scheduler).  A quality score (BLEU) is an integer in 0..MaxQuality.     *)
(*                                                                         *)
(* Two library functions have specifications of their own: get_net_code    *)
(* of libs/layers/net_code.py (NetCodeSpec) and register_task of           *)
(* libs/tasks.py (RegistrySpec).                                           *)
(***************************************************************************)
EXTENDS Integers, Sequences, FiniteSets, TLC

\* ---- bounds of the model -------------------------------------------------
MaxSeed == 2
MaxBatches == 2
MaxQuality == 1
MaxCtrlStep == 2
MaxEpochs == 2
MaxLambda == 2
\* layers per encoder or decoder of a net code file
MaxLayers == 1
\* length of a hyper-parameter candidate list
NumChoices == 2
\* task classes defined besides TextTask
NumClasses == 2

\* NetCodeEnum: the layer types
LSTM == 0
Convolutional == 1
Attention == 2

None == "None"

VARIABLES
    \* inputs: hyper-parameters, trainer flags, arguments, the dev split
    hparams, single_gpu, ArchDist, compute_loss, len_itr,
    \* NAOTrainer fields
    arch_pool, arch_pool_prob, performance_pool,
    model, optimizer, lr_scheduler,
    \* the cached references: 0 is None, k > 0 the object built by the k-th
    \* load; ref_loads counts the loads
    _ref_tokens, _ref_dict, ref_loads,
    \* nao_search_main
    pc, ctrl_step, error, valid_acc_list, old_arches, old_arches_perf,
    \* train_children frame
    arch, child, epoch,
    \* child_env frame
    env, raising,
    \* eval_children frame
    itr_chain, chain_pos, eval_idx, eval_arch, eval_sample,
    val_acc_list, val_loss_list,
    \* controller_generate_step frame
    gen_old_arches, new_arches, predict_lambda,
    \* collaborators' observable state and bookkeeping of the run
    n_objs, gen_calls, saved_keys, save_args, ctrl_train_args,
    ops, entry_snapshot, eval_log, epochs_run,
    \* libs/layers/net_code.py, get_net_code: the file's extension and decoded
    \* content, the call's position, its return value and its exception
    nc_ext, nc_content, nc_pc, nc_result, nc_error,
    \* libs/tasks.py: the registry, every class's own TaskName attribute and
    \* the last registration attempted
    AllTasks, TaskName, reg_call

netcode == <<nc_ext, nc_content, nc_pc, nc_result, nc_error>>
registry == <<AllTasks, TaskName, reg_call>>
libs == <<netcode, registry>>
inputs == <<hparams, single_gpu, ArchDist, compute_loss, len_itr>>
pool == <<arch_pool, arch_pool_prob, performance_pool>>
active == <<model, optimizer, lr_scheduler>>
refs == <<_ref_tokens, _ref_dict, ref_loads>>
mainloc == <<valid_acc_list, old_arches, old_arches_perf>>
trainloc == <<arch, child, epoch, epochs_run>>
envframe == <<env, raising, entry_snapshot>>
evalloc == <<itr_chain, chain_pos, eval_idx, eval_arch, eval_sample,
             val_acc_list, val_loss_list, eval_log>>
genloc == <<gen_old_arches, new_arches, predict_lambda>>
collab == <<gen_calls, saved_keys, save_args, ctrl_train_args>>

vars == <<libs, refs, inputs, pool, active, pc, ctrl_step, error, mainloc, trainloc,
          envframe, evalloc, genloc, collab, n_objs, ops>>

\* ---- helpers ---------------------------------------------------------------
Min(a, b) == IF a <= b THEN a ELSE b

\* math.ceil(p / b) for p >= 0, b >= 1
Ceil(p, b) == (p + b - 1) \div b

\* s[:n]
Take(s, n) == SubSeq(s, 1, Min(n, Len(s)))

\* n fresh object references following reference base
Fresh(base, n) == [i \in 1..n |-> base + i]

NoEnv == [active |-> FALSE, train |-> FALSE, old_model |-> 0,
          old_optimizer |-> 0, old_lr_scheduler |-> 0]

\* no lists handed over yet
NoArgs == [arches |-> <<>>, perf |-> <<>>]

NoSnapshot == [before |-> <<0, 0, 0>>, child |-> 0, train |-> FALSE,
               built |-> <<0, 0>>]

\* ---- libs/layers/net_code.py: values --------------------------------------
LayerTypes == {LSTM, Convolutional, Attention}

\* a layer code as a file can hold it: [LAYER_TYPE, LAYER_HPARAMS1], integers
LayerCodes == {<<t, h>> : t \in 0..(Attention + 1), h \in 0..NumChoices}

LayerLists == UNION {[1..n -> LayerCodes] : n \in 1..MaxLayers}

\* [encoder, decoder]
NetCodes == LayerLists \X LayerLists

\* a net code file: the text is the net code it spells and its syntax, plain
\* JSON, JSON with // line comments, or text that is not JSON once the
\* comments are removed
NetCodeFiles == [code : NetCodes, syntax : {"plain", "commented", "malformed"}]

NoFile == [code |-> <<>>, syntax |-> "plain"]

\* ---- libs/tasks.py: values ----------------------------------------------------
\* the task classes; class c derives from class c - 1, class 1 from TextTask
Classes == 1..NumClasses

\* registration names: name c is the snake-case name of class c, name 0 is
\* a string that is no class's snake-case name
Names == 0..NumClasses

NoCall == [form |-> "none", cls |-> 0, name |-> 0, raised |-> FALSE]

\* ---- construction ------------------------------------------------------------
\* get_net_code not called
NetCodeIdle ==
    /\ nc_ext = ".json"
    /\ nc_content = NoFile
    /\ nc_pc = "idle"
    /\ nc_result = <<>>
    /\ nc_error = None

\* AllTasks = {}; no class has a TaskName of its own (TextTask.TaskName = '')
RegistryInit ==
    /\ AllTasks = [n \in {} |-> 0]
    /\ TaskName = [c \in Classes |-> {}]
    /\ reg_call = NoCall

SearchInputs ==
    /\ hparams \in [num_seed_arch : 0..MaxSeed, num_remain_top : 0..MaxSeed,
                    max_ctrl_step : 0..MaxCtrlStep, child_eval_freq : 0..MaxEpochs]
    /\ single_gpu \in BOOLEAN
    /\ ArchDist \in BOOLEAN
    /\ compute_loss \in BOOLEAN
    /\ len_itr \in 0..MaxBatches
    \* an input the taken branch never reads is fixed: the multi-device
    \* branches read nothing past the flags, the single-device branch never
    \* reads ArchDist
    /\ single_gpu => ~ArchDist
    /\ ~single_gpu => /\ hparams.num_remain_top = 0
                      /\ hparams.max_ctrl_step = 1
                      /\ hparams.child_eval_freq = 0
                      /\ ~compute_loss
                      /\ len_itr = 1

\* one fixed setting of the search, for the runs of the library functions
SearchIdle ==
    /\ hparams = [num_seed_arch |-> 0, num_remain_top |-> 0,
                  max_ctrl_step |-> 1, child_eval_freq |-> 0]
    /\ single_gpu = TRUE
    /\ ArchDist = FALSE
    /\ compute_loss = FALSE
    /\ len_itr = 1

\* NAOTrainer.__init__ and the entry of nao_search_main
TrainerInit ==
    /\ arch_pool = <<>>
    /\ arch_pool_prob = None
    /\ performance_pool = <<>>
    /\ model = 0
    /\ optimizer = 0
    /\ lr_scheduler = 0
    /\ _ref_tokens = 0
    /\ _ref_dict = 0
    /\ ref_loads = 0
    /\ pc = "loop_test"
    /\ ctrl_step = 1
    /\ error = None
    /\ valid_acc_list = <<>>
    /\ old_arches = <<>>
    /\ old_arches_perf = <<>>
    /\ arch = 0
    /\ child = 0
    /\ epoch = 0
    /\ env = NoEnv
    /\ raising = FALSE
    /\ itr_chain = <<>>
    /\ chain_pos = 0
    /\ eval_idx = 0
    /\ eval_arch = 0
    /\ eval_sample = <<0, 0>>
    /\ val_acc_list = <<>>
    /\ val_loss_list = <<>>
    /\ gen_old_arches = <<>>
    /\ new_arches = <<>>
    /\ predict_lambda = 0
    /\ n_objs = 0
    /\ gen_calls = 0
    /\ saved_keys = <<>>
    /\ save_args = NoArgs
    /\ ctrl_train_args = NoArgs
    /\ ops = <<>>
    /\ entry_snapshot = NoSnapshot
    /\ eval_log = <<>>
    /\ epochs_run = <<>>

Init ==
    /\ SearchInputs
    /\ TrainerInit
    /\ NetCodeIdle
    /\ RegistryInit

\* ---- collaborators whose code lies outside this module's sources ------------
\* NAOController.generate_arch(n): n freshly generated architectures
generate_arch(n) == Fresh(n_objs, n)

\* ---- nao_search_main: the search loop ----------------------------------------
\* ctrl_step <= max_ctrl_step, where max_ctrl_step is
\* hparams.max_ctrl_step or math.inf: a falsy setting (0) means no limit
LoopContinues == hparams.max_ctrl_step = 0 \/ ctrl_step <= hparams.max_ctrl_step

\* the call of a search-loop operation at the current step
Call(op) == ops' = Append(ops, <<op, ctrl_step>>)

\* an exception that is caught around the loop body, which goes on with the
\* loop test
Raise_Continue(e) == pc' = "loop_test" /\ error' = e

\* an exception leaves the loop and ends the program
Raise(e) == pc' = "raised" /\ error' = e

\* while ctrl_step <= max_ctrl_step: ... ; the model follows the loop for
\* MaxCtrlStep iterations at most
LoopTest ==
    /\ pc = "loop_test"
    /\ IF LoopContinues
       THEN ctrl_step <= MaxCtrlStep /\ pc' = "init_arch_pool"
       ELSE pc' = "done"
    /\ UNCHANGED <<libs, refs, inputs, pool, active, ctrl_step, error, mainloc, trainloc,
                   envframe, evalloc, genloc, collab, n_objs, ops>>

\* a seeding without the early return
init_arch_pool_always ==
    /\ arch_pool_prob' = None
    /\ arch_pool' = generate_arch(hparams.num_seed_arch)
    /\ gen_calls' = gen_calls + 1
    /\ n_objs' = n_objs + hparams.num_seed_arch

\* NAOTrainer.init_arch_pool
init_arch_pool ==
    IF arch_pool # <<>>
    THEN UNCHANGED <<arch_pool, arch_pool_prob, gen_calls, n_objs>>
    ELSE /\ arch_pool_prob' = None
         /\ arch_pool' = generate_arch(hparams.num_seed_arch)
         /\ gen_calls' = gen_calls + 1
         /\ n_objs' = n_objs + hparams.num_seed_arch

InitArchPool ==
    /\ pc = "init_arch_pool"
    /\ Call("init_arch_pool")
    /\ init_arch_pool
    /\ pc' = "train_children"
    /\ UNCHANGED <<libs, refs, inputs, performance_pool, active, ctrl_step, error, mainloc,
                   trainloc, envframe, evalloc, genloc, saved_keys, save_args,
                   ctrl_train_args>>

\* a uniform draw whose upper end is one past the pool
SampleIndices_OffByOne == 1..(Len(arch_pool) + 1)

\* ---- NAOTrainer._sample_arch_from_pool ----------------------------------------
\* the indices the sampling can draw (1-based): uniform over the pool, or the
\* support of the probability vector
SampleIndices ==
    IF arch_pool_prob = None
    THEN 1..Len(arch_pool)
    ELSE {i \in 1..Len(arch_pool_prob) : arch_pool_prob[i] > 0}

\* an entry that reads old_model after the assignment of self.model
ChildEnvEnter_SaveAfter(m, train) ==
    /\ env' = [active |-> TRUE, train |-> train, old_model |-> m,
               old_optimizer |-> IF train THEN optimizer ELSE 0,
               old_lr_scheduler |-> IF train THEN lr_scheduler ELSE 0]
    /\ model' = m
    /\ IF train
       THEN /\ optimizer' = n_objs + 1
            /\ lr_scheduler' = n_objs + 2
            /\ n_objs' = n_objs + 2
       ELSE UNCHANGED <<optimizer, lr_scheduler, n_objs>>
    /\ entry_snapshot' = [before |-> <<model, optimizer, lr_scheduler>>,
                          child |-> m, train |-> train,
                          built |-> IF train THEN <<n_objs + 1, n_objs + 2>>
                                             ELSE <<0, 0>>]
    /\ raising' = FALSE

\* ---- NAOTrainer.child_env -------------------------------------------------------
\* entry of the scope, up to the yield
ChildEnvEnter(m, train) ==
    /\ env' = [active |-> TRUE, train |-> train, old_model |-> model,
               old_optimizer |-> IF train THEN optimizer ELSE 0,
               old_lr_scheduler |-> IF train THEN lr_scheduler ELSE 0]
    /\ model' = m
    /\ IF train
       THEN /\ optimizer' = n_objs + 1
            /\ lr_scheduler' = n_objs + 2
            /\ n_objs' = n_objs + 2
       ELSE UNCHANGED <<optimizer, lr_scheduler, n_objs>>
    /\ entry_snapshot' = [before |-> <<model, optimizer, lr_scheduler>>,
                          child |-> m, train |-> train,
                          built |-> IF train THEN <<n_objs + 1, n_objs + 2>>
                                             ELSE <<0, 0>>]
    /\ raising' = FALSE

\* a scope exit that restores only when the body ended normally
ChildEnvExit_NoFinally ==
    /\ IF raising
       THEN UNCHANGED active
       ELSE /\ model' = env.old_model
            /\ IF env.train
               THEN /\ optimizer' = env.old_optimizer
                    /\ lr_scheduler' = env.old_lr_scheduler
               ELSE UNCHANGED <<optimizer, lr_scheduler>>
    /\ env' = NoEnv

\* the finally block of the scope
ChildEnvExit ==
    /\ model' = env.old_model
    /\ IF env.train
       THEN /\ optimizer' = env.old_optimizer
            /\ lr_scheduler' = env.old_lr_scheduler
       ELSE UNCHANGED <<optimizer, lr_scheduler>>
    /\ env' = NoEnv

\* ---- NAOTrainer.train_children --------------------------------------------------
\* single-device path up to the with statement: sample an architecture and
\* build its child network
TrainChildren ==
    /\ pc = "train_children"
    /\ single_gpu
    /\ Call("train_children")
    /\ IF SampleIndices = {}
       THEN /\ Raise("RuntimeError")
            /\ UNCHANGED <<arch, child, n_objs>>
       ELSE /\ \E index \in SampleIndices :
                IF index <= Len(arch_pool)
                THEN /\ arch' = arch_pool[index]
                     /\ child' = n_objs + 1
                     /\ n_objs' = n_objs + 1
                     /\ pc' = "train_env"
                     /\ UNCHANGED error
                ELSE /\ Raise("IndexError")
                     /\ UNCHANGED <<arch, child, n_objs>>
    /\ epochs_run' = <<>>
    /\ UNCHANGED <<libs, refs, inputs, pool, active, ctrl_step, mainloc, epoch, envframe,
                   evalloc, genloc, collab>>

\* multi-device, ArchDist set
TrainChildrenArchDist ==
    /\ pc = "train_children"
    /\ ~single_gpu
    /\ ArchDist
    /\ Call("train_children")
    /\ Raise("NotImplementedError: Arch dist")
    /\ UNCHANGED <<libs, refs, inputs, pool, active, ctrl_step, mainloc, trainloc, envframe,
                   evalloc, genloc, collab, n_objs>>

\* a multi-device call that falls back to the single-device path
TrainChildrenNonArchDist_Fallback ==
    /\ pc = "train_children"
    /\ ~single_gpu
    /\ ~ArchDist
    /\ Call("train_children")
    /\ arch_pool # <<>>
    /\ \E index \in 1..Len(arch_pool) : arch' = arch_pool[index]
    /\ child' = n_objs + 1
    /\ n_objs' = n_objs + 1
    /\ pc' = "train_env"
    /\ epochs_run' = <<>>
    /\ UNCHANGED <<libs, refs, inputs, pool, active, ctrl_step, error, mainloc, epoch, envframe,
                   evalloc, genloc, collab>>

\* multi-device, ArchDist not set
TrainChildrenNonArchDist ==
    /\ pc = "train_children"
    /\ ~single_gpu
    /\ ~ArchDist
    /\ Call("train_children")
    /\ Raise("NotImplementedError: Non-arch dist")
    /\ UNCHANGED <<libs, refs, inputs, pool, active, ctrl_step, mainloc, trainloc, envframe,
                   evalloc, genloc, collab, n_objs>>

\* with self.child_env(child):
TrainEnvEnter ==
    /\ pc = "train_env"
    /\ ChildEnvEnter(child, TRUE)
    /\ epoch' = 1
    /\ pc' = "train_epoch"
    /\ UNCHANGED <<libs, refs, inputs, pool, ctrl_step, error, mainloc, arch, child,
                   epochs_run, evalloc, genloc, collab, ops>>

\* the loop over range(1, eval_freq + 2): one epoch too many
TrainEpoch_OneMore ==
    /\ pc = "train_epoch"
    /\ IF epoch <= hparams.child_eval_freq + 1
       THEN /\ epochs_run' = Append(epochs_run, [epoch |-> epoch, model |-> model])
            /\ \/ /\ epoch' = epoch + 1
                  /\ UNCHANGED <<pc, raising>>
               \/ /\ raising' = TRUE
                  /\ pc' = "train_env_exit"
                  /\ UNCHANGED epoch
       ELSE /\ pc' = "train_env_exit"
            /\ UNCHANGED <<epoch, epochs_run, raising>>
    /\ UNCHANGED <<libs, refs, inputs, pool, active, ctrl_step, error, mainloc,
                   arch, child, env, entry_snapshot, evalloc, genloc, collab,
                   n_objs, ops>>

\* for epoch in range(1, eval_freq + 1): mu.train(...), which may raise
TrainEpoch ==
    /\ pc = "train_epoch"
    /\ IF epoch <= hparams.child_eval_freq
       THEN /\ epochs_run' = Append(epochs_run, [epoch |-> epoch, model |-> model])
            /\ \/ /\ epoch' = epoch + 1
                  /\ UNCHANGED <<pc, raising>>
               \/ /\ raising' = TRUE
                  /\ pc' = "train_env_exit"
                  /\ UNCHANGED epoch
       ELSE /\ pc' = "train_env_exit"
            /\ UNCHANGED <<epoch, epochs_run, raising>>
    /\ UNCHANGED <<libs, refs, inputs, pool, active, ctrl_step, error, mainloc, arch, child,
                   env, entry_snapshot, evalloc, genloc, collab, n_objs, ops>>

\* leaving the with statement, then the return of train_children or the
\* propagation of the exception
TrainEnvExit ==
    /\ pc = "train_env_exit"
    /\ ChildEnvExit
    /\ IF raising THEN Raise("TrainError")
                  ELSE pc' = "eval_children" /\ UNCHANGED error
    /\ UNCHANGED <<libs, refs, inputs, pool, ctrl_step, mainloc, trainloc, raising,
                   entry_snapshot, evalloc, genloc, collab, n_objs, ops>>

\* ---- NAOTrainer.eval_children ----------------------------------------------------
\* never more than a single pass over the dev split
repeat_number_once == Min(Ceil(Len(arch_pool), len_itr), 1)

\* math.ceil(len(self.arch_pool) / len(itr))
repeat_number == Ceil(Len(arch_pool), len_itr)

\* a chain that repeats the first iterator object instead of asking for new ones
BuildItrChain_Cached ==
    [i \in 1..(1 + (IF repeat_number > 1 THEN repeat_number - 1 ELSE 0)) |-> n_objs + 1]

\* itr_chain = [itr] followed by one more iterator for each of
\* range(1, repeat_number); ChildGenerator.get_input_iter returns a new
\* iterator over the len_itr batches of the dev split at every call
BuildItrChain == Fresh(n_objs, 1 + (IF repeat_number > 1 THEN repeat_number - 1 ELSE 0))

\* the k-th item of itertools.chain(*itr_chain): <<iterator, batch of its pass>>
ChainItem(k) == <<itr_chain[((k - 1) \div len_itr) + 1], ((k - 1) % len_itr) + 1>>

\* the number of items the chain holds
ChainLen == Len(itr_chain) * len_itr

\* _get_ref_tokens without the test of the cache
_get_ref_tokens_Reload ==
    /\ _ref_dict' = ref_loads + 1
    /\ _ref_tokens' = ref_loads + 1
    /\ ref_loads' = ref_loads + 1

\* _get_ref_tokens: nothing when the tokens are cached; else the target
\* dictionary is copied, a new list is stored and filled from the file
_get_ref_tokens ==
    IF _ref_tokens # 0
    THEN UNCHANGED refs
    ELSE /\ _ref_dict' = ref_loads + 1
         /\ _ref_tokens' = ref_loads + 1
         /\ ref_loads' = ref_loads + 1

\* the call, up to the for statement; the reference file may fail to open
\* or to decode, after the new list is stored
EvalChildren ==
    /\ pc = "eval_children"
    /\ Call("eval_children")
    /\ _get_ref_tokens
    /\ \/ /\ _ref_tokens' # _ref_tokens
          /\ Raise("ReferenceFileError")
          /\ UNCHANGED <<itr_chain, n_objs>>
       \/ IF len_itr = 0
          THEN /\ Raise("ZeroDivisionError")
               /\ itr_chain' = Fresh(n_objs, 1)
               /\ n_objs' = n_objs + 1
          ELSE /\ itr_chain' = BuildItrChain
               /\ n_objs' = n_objs + Len(BuildItrChain)
               /\ pc' = "eval_loop"
               /\ UNCHANGED error
    /\ chain_pos' = 0
    /\ eval_idx' = 0
    /\ eval_arch' = 0
    /\ eval_sample' = <<0, 0>>
    /\ val_acc_list' = <<>>
    /\ val_loss_list' = <<>>
    /\ eval_log' = <<>>
    /\ UNCHANGED <<libs, inputs, pool, active, ctrl_step, mainloc, trainloc,
                   envframe, genloc, collab>>

\* for arch, sample in zip(arch_itr, whole_gen_itr): the next pair and its
\* child network, or the end of the loop and the return of val_acc_list
EvalNext ==
    /\ pc = "eval_loop"
    /\ IF eval_idx < Len(arch_pool) /\ chain_pos < ChainLen
       THEN /\ eval_idx' = eval_idx + 1
            /\ chain_pos' = chain_pos + 1
            /\ eval_arch' = arch_pool[eval_idx + 1]
            /\ eval_sample' = ChainItem(chain_pos + 1)
            /\ child' = n_objs + 1
            /\ n_objs' = n_objs + 1
            /\ pc' = IF compute_loss THEN "eval_env" ELSE "eval_decode"
            /\ UNCHANGED valid_acc_list
       ELSE /\ eval_idx' = Min(eval_idx + 1, Len(arch_pool))
            /\ valid_acc_list' = val_acc_list
            /\ pc' = "rank"
            /\ UNCHANGED <<chain_pos, eval_arch, eval_sample, child, n_objs>>
    /\ UNCHANGED <<libs, refs, inputs, pool, active, ctrl_step, error, old_arches,
                   old_arches_perf, arch, epoch, epochs_run, envframe, itr_chain,
                   val_acc_list, val_loss_list, eval_log, genloc, collab, ops>>

\* with self.child_env(child, train=False):
EvalEnvEnter ==
    /\ pc = "eval_env"
    /\ ChildEnvEnter(child, FALSE)
    /\ pc' = "eval_validate"
    /\ UNCHANGED <<libs, refs, inputs, pool, ctrl_step, error, mainloc, trainloc, evalloc,
                   genloc, collab, ops>>

\* val_loss = mu.validate(...), which may raise
EvalValidate ==
    /\ pc = "eval_validate"
    /\ raising' \in BOOLEAN
    /\ pc' = "eval_env_exit"
    /\ UNCHANGED <<libs, refs, inputs, pool, active, ctrl_step, error, mainloc, trainloc, env,
                   entry_snapshot, evalloc, genloc, collab, n_objs, ops>>

\* leaving the with statement, then val_loss_list.append(val_loss) or the
\* propagation of the exception
EvalEnvExit ==
    /\ pc = "eval_env_exit"
    /\ ChildEnvExit
    /\ IF raising
       THEN Raise("ValidateError") /\ UNCHANGED val_loss_list
       ELSE /\ val_loss_list' = Append(val_loss_list, "loss")
            /\ pc' = "eval_decode"
            /\ UNCHANGED error
    /\ UNCHANGED <<libs, refs, inputs, pool, ctrl_step, mainloc, trainloc, raising,
                   entry_snapshot, itr_chain, chain_pos, eval_idx, eval_arch,
                   eval_sample, val_acc_list, eval_log, genloc, collab, n_objs, ops>>

\* decoding of one batch with the child and its BLEU
EvalDecode ==
    /\ pc = "eval_decode"
    /\ \E val_bleu \in 0..MaxQuality :
         /\ val_acc_list' = Append(val_acc_list, val_bleu)
         /\ eval_log' = Append(eval_log, [arch |-> eval_arch, child |-> child,
                                          sample |-> eval_sample, bleu |-> val_bleu])
    /\ pc' = "eval_loop"
    /\ UNCHANGED <<libs, refs, inputs, pool, active, ctrl_step, error, mainloc, trainloc,
                   envframe, itr_chain, chain_pos, eval_idx, eval_arch, eval_sample,
                   val_loss_list, genloc, collab, n_objs, ops>>

\* ---- nao_search_main: ranking ---------------------------------------------------
\* [1.0 - i for i in valid_acc_list]
ErrorRates(acc) == [i \in 1..Len(acc) |-> 1 - acc[i]]

\* an index order that leaves the list as it is
argsort_identity(perf) == {[i \in 1..Len(perf) |-> i]}

\* np.argsort(perf): the index orders (1-based) that sort perf ascending; the
\* order among equal values is the sort routine's choice
argsort(perf) ==
    {p \in [1..Len(perf) -> 1..Len(perf)] :
        /\ \A i, j \in 1..Len(perf) : i # j => p[i] # p[j]
        /\ \A i \in 1..(Len(perf) - 1) : perf[p[i]] <= perf[p[i + 1]]}

\* [s[i] for i in indices]
Reorder(s, indices) == [i \in 1..Len(indices) |-> s[indices[i]]]

\* a ranking that goes on to the controller training without saving
Rank_SkipSave ==
    /\ pc = "rank"
    /\ Call("rank")
    /\ \E old_arches_sorted_indices \in argsort(ErrorRates(valid_acc_list)) :
         /\ old_arches' = Reorder(arch_pool, old_arches_sorted_indices)
         /\ old_arches_perf' = Reorder(ErrorRates(valid_acc_list),
                                       old_arches_sorted_indices)
    /\ pc' = "controller_train_step"
    /\ UNCHANGED <<libs, refs, inputs, pool, active, ctrl_step, error, valid_acc_list, trainloc,
                   envframe, evalloc, genloc, collab, n_objs>>

Rank ==
    /\ pc = "rank"
    /\ Call("rank")
    /\ \E old_arches_sorted_indices \in argsort(ErrorRates(valid_acc_list)) :
         /\ old_arches' = Reorder(arch_pool, old_arches_sorted_indices)
         /\ old_arches_perf' = Reorder(ErrorRates(valid_acc_list),
                                       old_arches_sorted_indices)
    /\ pc' = "save_arches"
    /\ UNCHANGED <<libs, refs, inputs, pool, active, ctrl_step, error, valid_acc_list, trainloc,
                   envframe, evalloc, genloc, collab, n_objs>>

\* a save_arches call that is handed the pool and its error rates as
\* evaluated, not the ranked lists
SaveArches_Unranked ==
    /\ pc = "save_arches"
    /\ Call("save_arches")
    /\ save_args' = [arches |-> arch_pool, perf |-> ErrorRates(valid_acc_list)]
    /\ \/ /\ saved_keys' = Append(saved_keys, ctrl_step)
          /\ pc' = "controller_train_step"
          /\ UNCHANGED error
       \/ /\ Raise("SaveError")
          /\ UNCHANGED saved_keys
    /\ UNCHANGED <<libs, refs, inputs, pool, active, ctrl_step, mainloc,
                   trainloc, envframe, evalloc, genloc, gen_calls,
                   ctrl_train_args, n_objs>>

\* nao_utils.save_arches(hparams, ctrl_step, old_arches, old_arches_perf): the
\* lists are stored under the step index, or the writing fails and raises
SaveArches ==
    /\ pc = "save_arches"
    /\ Call("save_arches")
    /\ save_args' = [arches |-> old_arches, perf |-> old_arches_perf]
    /\ \/ /\ saved_keys' = Append(saved_keys, ctrl_step)
          /\ pc' = "controller_train_step"
          /\ UNCHANGED error
       \/ /\ Raise("SaveError")
          /\ UNCHANGED saved_keys
    /\ UNCHANGED <<libs, refs, inputs, pool, active, ctrl_step, mainloc, trainloc,
                   envframe, evalloc, genloc, gen_calls, ctrl_train_args, n_objs>>

\* ---- NAOTrainer.controller_train_step ---------------------------------------------
\* np.max(perf_list), np.min(perf_list)
MaxOf(s) == CHOOSE v \in {s[i] : i \in 1..Len(s)} : \A j \in 1..Len(s) : s[j] <= v
MinOf(s) == CHOOSE v \in {s[i] : i \in 1..Len(s)} : \A j \in 1..Len(s) : v <= s[j]

\* a / b on numpy floats, for a >= 0 and b >= 0: the quotient as the fraction
\* num/den; 0.0 / 0.0 is nan (numpy warns, it does not raise)
FloatDiv(a, b) ==
    IF b = 0 THEN [nan |-> TRUE, num |-> 0, den |-> 0]
             ELSE [nan |-> FALSE, num |-> a, den |-> b]

\* NAOTrainer._normalized_perf
_normalized_perf(perf_list) ==
    LET max_val == MaxOf(perf_list)
        min_val == MinOf(perf_list)
    IN [i \in 1..Len(perf_list) |->
            FloatDiv(perf_list[i] - min_val, max_val - min_val)]

\* the call with the ranked lists; the controller's collaborators (sequence
\* conversion, data loader, encoder-predictor-decoder) may raise
ControllerTrainStep ==
    /\ pc = "controller_train_step"
    /\ Call("controller_train_step")
    /\ ctrl_train_args' = [arches |-> old_arches, perf |-> old_arches_perf,
                           target |-> _normalized_perf(old_arches_perf)]
    /\ \/ pc' = "controller_generate_step" /\ UNCHANGED error
       \/ Raise("ControllerError")
    /\ UNCHANGED <<libs, refs, inputs, pool, active, ctrl_step, mainloc, trainloc,
                   envframe, evalloc, genloc, gen_calls, saved_keys, save_args,
                   n_objs>>

\* ---- NAOTrainer.controller_generate_step --------------------------------------------
\* the call, up to the while statement
ControllerGenerateStep ==
    /\ pc = "controller_generate_step"
    /\ Call("controller_generate_step")
    /\ gen_old_arches' = Take(old_arches, hparams.num_remain_top)
    /\ new_arches' = <<>>
    /\ predict_lambda' = 0
    /\ pc' = "gen_test"
    /\ UNCHANGED <<libs, refs, inputs, pool, active, ctrl_step, error, mainloc, trainloc,
                   envframe, evalloc, collab, n_objs>>

\* while len(new_arches) + len(old_arches) < self.hparams.num_seed_arch:
\* when the test fails the method returns (None) to the search loop
GenTest ==
    /\ pc = "gen_test"
    /\ pc' = IF Len(new_arches) + Len(gen_old_arches) < hparams.num_seed_arch
             THEN "gen_body" ELSE "incr"
    /\ UNCHANGED <<libs, refs, inputs, pool, active, ctrl_step, error, mainloc, trainloc,
                   envframe, evalloc, genloc, collab, n_objs, ops>>

\* predict_lambda += 1; a value of MaxLambda stands for every value from
\* MaxLambda on
GenBody ==
    /\ pc = "gen_body"
    /\ predict_lambda' = IF predict_lambda < MaxLambda THEN predict_lambda + 1
                                                       ELSE predict_lambda
    /\ pc' = "gen_test"
    /\ UNCHANGED <<libs, refs, inputs, pool, active, ctrl_step, error, mainloc, trainloc,
                   envframe, evalloc, gen_old_arches, new_arches, collab, n_objs,
                   ops>>

\* ctrl_step += 1.  The locals of the finished iteration are dead from here
\* on (each is assigned again before it is next read), so they are cleared.
Incr ==
    /\ pc = "incr"
    /\ Call("incr")
    /\ ctrl_step' = ctrl_step + 1
    /\ pc' = "loop_test"
    /\ valid_acc_list' = <<>>
    /\ old_arches' = <<>>
    /\ old_arches_perf' = <<>>
    /\ arch' = 0
    /\ child' = 0
    /\ epoch' = 0
    /\ epochs_run' = <<>>
    /\ entry_snapshot' = NoSnapshot
    /\ itr_chain' = <<>>
    /\ chain_pos' = 0
    /\ eval_idx' = 0
    /\ eval_arch' = 0
    /\ eval_sample' = <<0, 0>>
    /\ val_acc_list' = <<>>
    /\ val_loss_list' = <<>>
    /\ eval_log' = <<>>
    /\ gen_old_arches' = <<>>
    /\ new_arches' = <<>>
    /\ predict_lambda' = 0
    /\ save_args' = NoArgs
    /\ ctrl_train_args' = NoArgs
    /\ UNCHANGED <<libs, refs, inputs, pool, active, error, env, raising, gen_calls,
                   saved_keys, n_objs>>

Next ==
    \/ LoopTest
    \/ InitArchPool
    \/ TrainChildren
    \/ TrainChildrenArchDist
    \/ TrainChildrenNonArchDist
    \/ TrainEnvEnter
    \/ TrainEpoch
    \/ TrainEnvExit
    \/ EvalChildren
    \/ EvalNext
    \/ EvalEnvEnter
    \/ EvalValidate
    \/ EvalEnvExit
    \/ EvalDecode
    \/ Rank
    \/ SaveArches
    \/ ControllerTrainStep
    \/ ControllerGenerateStep
    \/ GenTest
    \/ GenBody
    \/ Incr

Spec == Init /\ [][Next]_vars

\* the interpreter keeps executing the program while a statement remains
FairSpec == Spec /\ WF_vars(Next)

TypeOK ==
    /\ pc \in {"loop_test", "init_arch_pool", "train_children", "train_env",
               "train_epoch", "train_env_exit", "eval_children", "eval_loop",
               "eval_env", "eval_validate", "eval_env_exit", "eval_decode", "rank",
               "save_arches", "controller_train_step", "controller_generate_step",
               "gen_test", "gen_body", "incr", "done", "raised"}
    /\ ctrl_step \in 1..(MaxCtrlStep + 1)
    /\ predict_lambda \in 0..MaxLambda
    /\ Len(arch_pool) <= MaxSeed

\* ---- properties ------------------------------------------------------------------
IsPerm(p, n) ==
    /\ DOMAIN p = 1..n
    /\ \A i \in 1..n : p[i] \in 1..n
    /\ \A i, j \in 1..n : i # j => p[i] # p[j]

Ascending(s) == \A i \in 1..(Len(s) - 1) : s[i] <= s[i + 1]

\* C1: inside a child scope the trainer's model is the child (and, for a
\* training scope, optimizer and lr_scheduler are the ones built for it, not
\* the ones in place before); when the scope is left, after a normal end of
\* the body or after an exception, model, optimizer and lr_scheduler are the
\* references held just before entry; the program never ends inside a scope.
C1_ScopeRestored ==
    /\ [](env.active =>
            /\ model = entry_snapshot.child
            /\ model # entry_snapshot.before[1]
            /\ IF env.train
               THEN /\ <<optimizer, lr_scheduler>> = entry_snapshot.built
                    /\ optimizer # entry_snapshot.before[2]
                    /\ lr_scheduler # entry_snapshot.before[3]
               ELSE <<optimizer, lr_scheduler>> =
                        <<entry_snapshot.before[2], entry_snapshot.before[3]>>)
    /\ [][env.active /\ ~env'.active =>
            <<model', optimizer', lr_scheduler'>> = entry_snapshot.before]_vars
    /\ [](pc \in {"done", "raised"} => ~env.active)

\* a training scope whose body raised has been left and the trainer holds the
\* shared model and its own optimizer and scheduler again
C1_Witness ==
    /\ pc = "raised"
    /\ error = "TrainError"
    /\ entry_snapshot.train
    /\ ~env.active
    /\ <<model, optimizer, lr_scheduler>> = entry_snapshot.before
    /\ epochs_run # <<>>

\* C2: after the ranking of a non-empty pool with one score per architecture,
\* the error rates (1 - quality) are ascending, and the architectures and the
\* error rates are the input's, reordered by one and the same permutation.
C2_RankSorted ==
    (pc = "save_arches" /\ arch_pool # <<>> /\ Len(valid_acc_list) = Len(arch_pool)) =>
        /\ Ascending(old_arches_perf)
        /\ \E p \in [1..Len(arch_pool) -> 1..Len(arch_pool)] :
             /\ IsPerm(p, Len(arch_pool))
             /\ old_arches = [i \in 1..Len(arch_pool) |-> arch_pool[p[i]]]
             /\ old_arches_perf =
                    [i \in 1..Len(arch_pool) |-> 1 - valid_acc_list[p[i]]]

\* a ranking that moved the second architecture of the pool to the front
C2_Witness ==
    /\ pc = "save_arches"
    /\ Len(arch_pool) = 2
    /\ valid_acc_list[1] < valid_acc_list[2]
    /\ old_arches = <<arch_pool[2], arch_pool[1]>>

OpOrder == <<"init_arch_pool", "train_children", "eval_children", "rank",
             "save_arches", "controller_train_step", "controller_generate_step",
             "incr">>

\* C3: the operations of the run are called in the order init_arch_pool,
\* train_children, eval_children, rank, save_arches, controller_train_step,
\* controller_generate_step, increment, over and over: the i-th call of the run
\* is the operation that order gives, made at step (i-1) div 8 + 1, and the
\* step counter is one more than the number of increments.
C3_StrictOrder ==
    /\ \A i \in 1..Len(ops) :
         ops[i] = <<OpOrder[((i - 1) % Len(OpOrder)) + 1],
                    ((i - 1) \div Len(OpOrder)) + 1>>
    /\ ctrl_step = (Len(ops) \div Len(OpOrder)) + 1

\* two complete iterations
C3_Witness ==
    /\ pc = "loop_test"
    /\ ctrl_step = 3
    /\ Len(ops) = 2 * Len(OpOrder)

\* C4: with a maximum step count N >= 1 on a single device the loop ends, and
\* if it ends normally it does so after exactly N iterations (an exception
\* raised by an operation also ends it); with no maximum the loop never ends
\* normally.
C4_TerminatesAfterN ==
    /\ (hparams.max_ctrl_step >= 1 /\ single_gpu) =>
          <>(\/ pc = "raised"
             \/ /\ pc = "done"
                /\ ctrl_step = hparams.max_ctrl_step + 1
                /\ Len(ops) = hparams.max_ctrl_step * Len(OpOrder))
    /\ [](hparams.max_ctrl_step = 0 => pc # "done")

\* C5: a generation step entered with fewer retained architectures than the
\* target pool size returns with exactly (target - retained) new architectures
\* (or raises).
C5_GeneratesMissing ==
    (pc = "gen_test" /\ Len(gen_old_arches) < hparams.num_seed_arch)
        ~> (\/ pc = "raised"
            \/ /\ pc = "incr"
               /\ Len(new_arches) = hparams.num_seed_arch - Len(gen_old_arches))

\* C6: when the generation step has returned, the trainer's pool is the
\* replacement pool: the retained top architectures followed by the new ones.
\* (Stated for scores without ties, where the ranking is unique.)
C6_PoolReplaced ==
    (pc = "incr" /\ \A i, j \in 1..Len(valid_acc_list) :
                        i # j => valid_acc_list[i] # valid_acc_list[j]) =>
        arch_pool = gen_old_arches \o new_arches

\* C7: after the ranking the trainer's pool and its performance vector are the
\* sorted lists.
C7_PoolStoredSorted ==
    pc = "save_arches" =>
        /\ arch_pool = old_arches
        /\ performance_pool = old_arches_perf

\* C8: with at least one batch per pass, eval_children returns one score per
\* architecture of the pool, the i-th being the score computed for the i-th
\* architecture.
C8_OneScorePerArch ==
    (pc = "rank" /\ len_itr >= 1) =>
        /\ Len(valid_acc_list) = Len(arch_pool)
        /\ Len(eval_log) = Len(arch_pool)
        /\ \A i \in 1..Len(arch_pool) :
             /\ eval_log[i].arch = arch_pool[i]
             /\ valid_acc_list[i] = eval_log[i].bleu

\* a pool larger than one pass over the dev split, fully scored
C8_Witness ==
    /\ pc = "rank"
    /\ len_itr >= 1
    /\ Len(arch_pool) > len_itr
    /\ Len(valid_acc_list) = Len(arch_pool)
    /\ eval_log[Len(arch_pool)].arch = arch_pool[Len(arch_pool)]

\* C9: for a pool of P architectures and B >= 1 batches per pass,
\* eval_children builds max(1, ceil(P/B)) iterators, all different objects,
\* takes exactly P batches from their chain, gives the i-th architecture the
\* i-th batch of the chain (no batch of an iterator twice), and uses no batch
\* of the split more than ceil(P/B) times.
C9_BatchesConsumed ==
    (pc = "rank" /\ len_itr >= 1) =>
        LET P == Len(arch_pool)
            B == len_itr
            passes == (P + B - 1) \div B
        IN /\ Len(itr_chain) = (IF passes > 1 THEN passes ELSE 1)
           /\ \A i, j \in 1..Len(itr_chain) : i # j => itr_chain[i] # itr_chain[j]
           /\ chain_pos = P
           /\ Len(eval_log) = P
           /\ \A i \in 1..Len(eval_log) :
                eval_log[i].sample =
                    <<itr_chain[((i - 1) \div B) + 1], ((i - 1) % B) + 1>>
           /\ \A i, j \in 1..Len(eval_log) :
                i # j => eval_log[i].sample # eval_log[j].sample
           /\ \A b \in 1..B :
                Cardinality({i \in 1..Len(eval_log) : eval_log[i].sample[2] = b})
                    <= passes

\* two architectures scored on a split of one batch: two iterators, two batches
C9_Witness ==
    /\ pc = "rank"
    /\ len_itr = 1
    /\ Len(arch_pool) = 2
    /\ Len(itr_chain) = 2
    /\ chain_pos = 2
    /\ Len(eval_log) = 2

\* C10: a seed call on a non-empty pool changes neither the pool nor the
\* sampling-probability vector and does not call the controller's generation;
\* on an empty pool it calls the generation once, the pool becomes its result
\* (num_seed_arch new architectures) and the probability vector is absent.
C10_SeedIdempotent ==
    [][(pc = "init_arch_pool" /\ pc' # pc) =>
          IF arch_pool # <<>>
          THEN /\ arch_pool' = arch_pool
               /\ arch_pool_prob' = arch_pool_prob
               /\ gen_calls' = gen_calls
          ELSE /\ gen_calls' = gen_calls + 1
               /\ Len(arch_pool') = hparams.num_seed_arch
               /\ \A i \in 1..Len(arch_pool') : arch_pool'[i] > n_objs
               /\ arch_pool_prob' = None]_vars

\* the seed call of the second iteration has been made and the pool is still
\* the one the first call generated
C10_Witness ==
    /\ pc = "train_children"
    /\ ctrl_step = 2
    /\ gen_calls = 1
    /\ arch_pool # <<>>
    /\ \A i \in 1..Len(arch_pool) : arch_pool[i] = i

\* C11: off the single-device mode, the call of train_children ends the
\* program with a NotImplementedError (the one of the arch-distributed branch
\* when ArchDist is set, the other one otherwise): no architecture was
\* sampled, no child network or other object was built, no child scope was
\* entered and no epoch was run.
C11_MultiDeviceFailsFast ==
    (~single_gpu /\ pc \notin {"loop_test", "init_arch_pool", "train_children"}) =>
        /\ pc = "raised"
        /\ error = (IF ArchDist THEN "NotImplementedError: Arch dist"
                                ELSE "NotImplementedError: Non-arch dist")
        /\ ops[Len(ops)] = <<"train_children", 1>>
        /\ arch = 0
        /\ child = 0
        /\ n_objs = Len(arch_pool)
        /\ ~env.active
        /\ entry_snapshot = NoSnapshot
        /\ epochs_run = <<>>
        /\ <<model, optimizer, lr_scheduler>> = <<0, 0, 0>>

\* the arch-distributed branch has raised on a seeded pool
C11_Witness ==
    /\ ~single_gpu
    /\ ArchDist
    /\ pc = "raised"
    /\ error = "NotImplementedError: Arch dist"
    /\ arch_pool # <<>>

C13_FailurePropagates ==
    /\ [](error # None => pc = "raised")
    /\ [][pc = "raised" => UNCHANGED vars]_vars
    /\ [](pc = "raised" =>
            LET last == ops[Len(ops)]
            IN /\ error # None
               /\ last[2] = ctrl_step
               /\ Cardinality({i \in 1..Len(ops) : ops[i] = last}) = 1
               /\ last[1] \in {"train_children", "eval_children"} =>
                    /\ save_args = NoArgs
                    /\ ctrl_train_args = NoArgs
                    /\ \A i \in 1..Len(saved_keys) : saved_keys[i] # ctrl_step
                    /\ \A i \in 1..Len(ops) :
                         ops[i][2] = ctrl_step =>
                            ops[i][1] \notin {"rank", "save_arches",
                                              "controller_train_step",
                                              "controller_generate_step", "incr"}
               /\ last[1] = "save_arches" =>
                    /\ ctrl_train_args = NoArgs
                    /\ \A i \in 1..Len(saved_keys) : saved_keys[i] # ctrl_step)

\* the evaluation of the second step has raised: the first step was saved,
\* the second was not
C13_Witness ==
    /\ pc = "raised"
    /\ error = "ValidateError"
    /\ ctrl_step = 2
    /\ saved_keys = <<1>>
    /\ save_args = NoArgs
    /\ ops[Len(ops)] = <<"eval_children", 2>>

\* C14: when controller_train_step has returned, the performance list it
\* normalized did not have all values equal (that case is flagged as an error
\* and returns no list), and the normalized list has the length of the input,
\* every value in [0,1], 0 for the minimum, 1 for the maximum, and the order
\* of the input.
C14_NormalizedOrFlagged ==
    (pc = "controller_generate_step" /\ ctrl_train_args # NoArgs) =>
        LET perf == ctrl_train_args.perf
            target == ctrl_train_args.target
        IN /\ \E i, j \in 1..Len(perf) : perf[i] # perf[j]
           /\ Len(target) = Len(perf)
           /\ \A i \in 1..Len(target) :
                /\ ~target[i].nan
                /\ target[i].den > 0
                /\ 0 <= target[i].num
                /\ target[i].num <= target[i].den
                /\ perf[i] = MinOf(perf) => target[i].num = 0
                /\ perf[i] = MaxOf(perf) => target[i].num = target[i].den
           /\ \A i, j \in 1..Len(target) :
                perf[i] <= perf[j] =>
                    target[i].num * target[j].den <= target[j].num * target[i].den

\* ==== libs/layers/net_code.py ===================================================
\* load_json(fp): the // line comments are removed, the rest is parsed
load_json(fp) == fp.code

\* check_correctness(code): its body is pass; the exceptions it raises
check_correctness(code) == {}

\* get_net_code, ext == '.json'
GetNetCodeJson ==
    /\ nc_pc = "call"
    /\ nc_ext = ".json"
    /\ IF nc_content.syntax = "malformed"
       THEN /\ nc_pc' = "raised"
            /\ nc_error' = "JSONDecodeError"
            /\ UNCHANGED nc_result
       ELSE LET code == load_json(nc_content)
            IN IF check_correctness(code) # {}
               THEN /\ nc_pc' = "raised"
                    /\ nc_error' \in check_correctness(code)
                    /\ UNCHANGED nc_result
               ELSE /\ nc_pc' = "returned"
                    /\ nc_result' = code
                    /\ UNCHANGED nc_error
    /\ UNCHANGED <<nc_ext, nc_content, registry, refs, inputs, pool, active, pc,
                   ctrl_step, error, mainloc, trainloc, envframe, evalloc,
                   genloc, collab, n_objs, ops>>

\* get_net_code, ext == '.pkl': the file is open in text mode, and
\* pickle.load wants bytes; a binary pickle does not even decode as text
GetNetCodePickle ==
    /\ nc_pc = "call"
    /\ nc_ext = ".pkl"
    /\ nc_pc' = "raised"
    /\ nc_error' \in {"TypeError", "UnicodeDecodeError"}
    /\ UNCHANGED <<nc_ext, nc_content, nc_result, registry, refs, inputs, pool,
                   active, pc, ctrl_step, error, mainloc, trainloc, envframe,
                   evalloc, genloc, collab, n_objs, ops>>

\* get_net_code, any other extension
GetNetCodeOther ==
    /\ nc_pc = "call"
    /\ nc_ext \notin {".json", ".pkl"}
    /\ nc_pc' = "raised"
    /\ nc_error' = "ValueError"
    /\ UNCHANGED <<nc_ext, nc_content, nc_result, registry, refs, inputs, pool,
                   active, pc, ctrl_step, error, mainloc, trainloc, envframe,
                   evalloc, genloc, collab, n_objs, ops>>

\* a call of get_net_code on a file of any extension and content; the
\* content of a file that is not read as JSON is not looked at
NetCodeInit ==
    /\ SearchIdle
    /\ TrainerInit
    /\ RegistryInit
    /\ nc_ext \in {".json", ".pkl", ".txt"}
    /\ nc_content \in NetCodeFiles
    /\ nc_ext # ".json" =>
           nc_content = [code |-> <<<< <<LSTM, 0>> >>, << <<LSTM, 0>> >> >>,
                         syntax |-> "plain"]
    /\ nc_pc = "call"
    /\ nc_result = <<>>
    /\ nc_error = None

NetCodeNext ==
    \/ GetNetCodeJson
    \/ GetNetCodePickle
    \/ GetNetCodeOther

NetCodeSpec == NetCodeInit /\ [][NetCodeNext]_vars

NetCodeTypeOK ==
    /\ nc_ext \in {".json", ".pkl", ".txt"}
    /\ nc_content \in NetCodeFiles
    /\ nc_pc \in {"call", "returned", "raised"}
    /\ nc_result \in NetCodes \cup {<<>>}
    /\ nc_error \in {None, "JSONDecodeError", "TypeError",
                     "UnicodeDecodeError", "ValueError"}
    /\ nc_pc = "returned" <=> nc_result # <<>>
    /\ nc_pc = "raised" <=> nc_error # None

\* every integer of the net code is an index the layer can use: the layer
\* type is one of NetCodeEnum, the hyper-parameter an index into its
\* candidate list
ValidNetCode(code) ==
    \A part \in 1..Len(code) : \A l \in 1..Len(code[part]) :
        /\ code[part][l][1] \in LayerTypes
        /\ code[part][l][2] \in 0..(NumChoices - 1)

\* C15: get_net_code returns a net code only if every layer's integers are
\* valid indices for the declared layer type (layer type in {0, 1, 2}); a
\* net code holding an out-of-range integer is rejected by check_correctness
\* and never returned.
C15_OnlyValidReturned ==
    nc_pc = "returned" => ValidNetCode(nc_result)

\* ==== libs/tasks.py ================================================================
\* utils.registry_utils.camel2snake(cls.__name__): the snake-case name of class c
camel2snake(c) == c

\* the decorator with the assignments moved in front of the test
decorator_AssignFirst(cls, registration_name, form) ==
    /\ AllTasks' = [n \in DOMAIN AllTasks \cup {registration_name} |->
                        IF n = registration_name THEN cls ELSE AllTasks[n]]
    /\ TaskName' = [TaskName EXCEPT ![cls] = {registration_name}]
    /\ reg_call' = [form |-> form, cls |-> cls, name |-> registration_name,
                    raised |-> registration_name \in DOMAIN AllTasks]

\* register_task.decorator(cls, registration_name); raised: the ValueError
decorator(cls, registration_name, form) ==
    IF registration_name \in DOMAIN AllTasks
    THEN /\ reg_call' = [form |-> form, cls |-> cls,
                         name |-> registration_name, raised |-> TRUE]
         /\ UNCHANGED <<AllTasks, TaskName>>
    ELSE /\ AllTasks' = [n \in DOMAIN AllTasks \cup {registration_name} |->
                             IF n = registration_name THEN cls ELSE AllTasks[n]]
         /\ TaskName' = [TaskName EXCEPT ![cls] = {registration_name}]
         /\ reg_call' = [form |-> form, cls |-> cls,
                         name |-> registration_name, raised |-> FALSE]

\* @register_task('name') class ...: cls_or_name is a str
RegisterByName ==
    /\ \E c \in Classes, n \in Names : decorator(c, n, "name")
    /\ UNCHANGED <<netcode, refs, inputs, pool, active, pc, ctrl_step, error,
                   mainloc, trainloc, envframe, evalloc, genloc, collab,
                   n_objs, ops>>

\* @register_task class ...: cls_or_name is the class
RegisterByClass ==
    /\ \E c \in Classes : decorator(c, camel2snake(c), "class")
    /\ UNCHANGED <<netcode, refs, inputs, pool, active, pc, ctrl_step, error,
                   mainloc, trainloc, envframe, evalloc, genloc, collab,
                   n_objs, ops>>

\* get_task(name), for a registered name
get_task(name) == AllTasks[name]

RegistryStart ==
    /\ SearchIdle
    /\ TrainerInit
    /\ NetCodeIdle
    /\ RegistryInit

RegistryNext ==
    \/ RegisterByName
    \/ RegisterByClass

RegistrySpec == RegistryStart /\ [][RegistryNext]_vars

RegistryTypeOK ==
    /\ DOMAIN AllTasks \subseteq Names
    /\ \A n \in DOMAIN AllTasks : AllTasks[n] \in Classes
    /\ TaskName \in [Classes -> {{}} \cup {{n} : n \in Names}]
    /\ reg_call \in [form : {"none", "name", "class"}, cls : 0..NumClasses,
                     name : Names, raised : BOOLEAN]

\* C16: a registration under a name that is already in the registry raises
\* ValueError and changes nothing: the registry is the same (the name still
\* maps to the class registered first) and no class's TaskName is set, the
\* rejected class's included; in both forms, by name and by class, after
\* any registrations.
C16_DuplicateRejected ==
    [][(reg_call'.form \in {"name", "class"}
        /\ reg_call'.name \in DOMAIN AllTasks)
       => /\ reg_call'.raised
          /\ AllTasks' = AllTasks
          /\ get_task(reg_call'.name) = AllTasks'[reg_call'.name]
          /\ TaskName' = TaskName]_vars

\* class 2, registered by class, was rejected: its snake-case name had been
\* given to class 1, and class 2 has no TaskName
C16_Witness ==
    /\ reg_call = [form |-> "class", cls |-> 2, name |-> camel2snake(2),
                   raised |-> TRUE]
    /\ camel2snake(2) \in DOMAIN AllTasks
    /\ get_task(camel2snake(2)) = 1
    /\ TaskName[2] = {}

\* C17: over the eval_children calls of one trainer the reference tokens and
\* the reference dictionary are computed at most once: the first call loads
\* them, a later call reads no file and copies no dictionary, and the
\* cached values never change afterwards.
C17_RefTokensOnce ==
    /\ [](ref_loads <= 1)
    /\ [](_ref_tokens = 0 <=> ref_loads = 0)
    /\ [][(pc = "eval_children" /\ pc' # pc /\ _ref_tokens = 0)
          => (_ref_tokens' # 0 /\ _ref_dict' # 0 /\ ref_loads' = 1)]_vars
    /\ [][_ref_tokens # 0 => UNCHANGED refs]_vars

\* the second eval_children call has gone by with the cache of the first
C17_Witness ==
    /\ ctrl_step = 2
    /\ pc = "eval_loop"
    /\ ops[Len(ops)] = <<"eval_children", 2>>
    /\ ref_loads = 1
    /\ _ref_tokens = 1
    /\ _ref_dict = 1

\* the position is inside a single-device train_children call, after the
\* sampling
InTrainChildren == pc \in {"train_env", "train_epoch", "train_env_exit"}

\* C18: on the single-device path one train_children call samples one
\* architecture of the pool, builds one child network, and runs
\* child_eval_freq training epochs numbered 1..child_eval_freq in increasing
\* order, each with trainer.model the child; at the return trainer.model is
\* the shared model again; the pool is not modified.
C18_TrainOneChild ==
    /\ [][(pc = "train_children" /\ pc' = "train_env")
          => /\ \E i \in 1..Len(arch_pool) : arch' = arch_pool[i]
             /\ child' = n_objs + 1
             /\ n_objs' = n_objs + 1]_vars
    /\ [][InTrainChildren => (arch' = arch /\ child' = child)]_vars
    /\ [][(pc = "train_children" \/ InTrainChildren) => UNCHANGED pool]_vars
    /\ []((pc \in {"train_epoch", "train_env_exit"})
          => /\ Len(epochs_run) <= hparams.child_eval_freq
             /\ epochs_run = [i \in 1..Len(epochs_run) |->
                                  [epoch |-> i, model |-> child]]
             /\ child # 0
             /\ model = child)
    /\ []((single_gpu /\ pc = "eval_children")
          => /\ epochs_run = [i \in 1..hparams.child_eval_freq |->
                                  [epoch |-> i, model |-> child]]
             /\ model = 0)

\* a call that sampled the second of two architectures has returned after
\* two epochs
C18_Witness ==
    /\ pc = "eval_children"
    /\ hparams.child_eval_freq = 2
    /\ Len(epochs_run) = 2
    /\ Len(arch_pool) = 2
    /\ arch = arch_pool[2]
    /\ child # 0
    /\ model = 0

\* C19: in every iteration save_arches and controller_train_step are handed
\* the same ranked lists, a reordering of this iteration's pool and of the
\* error rates of this iteration's eval_children result; save_arches is
\* called once per ranking under the current step index, so the keys written
\* are 1, 2, 3, ... and none is written twice.
C19_SameListsSavedAndTrained ==
    /\ saved_keys = [i \in 1..Len(saved_keys) |-> i]
    /\ Len(saved_keys) \in {ctrl_step - 1, ctrl_step}
    /\ pc \in {"controller_train_step", "controller_generate_step"}
           => Len(saved_keys) = ctrl_step
    /\ pc \in {"init_arch_pool", "train_children", "eval_children", "rank",
               "save_arches"} => Len(saved_keys) = ctrl_step - 1
    /\ save_args # NoArgs =>
           /\ save_args.arches = old_arches
           /\ save_args.perf = old_arches_perf
           /\ \E p \in argsort(ErrorRates(valid_acc_list)) :
                  /\ save_args.arches = Reorder(arch_pool, p)
                  /\ save_args.perf = Reorder(ErrorRates(valid_acc_list), p)
    /\ ctrl_train_args # NoArgs =>
           /\ ctrl_train_args.arches = save_args.arches
           /\ ctrl_train_args.perf = save_args.perf
    /\ pc = "controller_generate_step" =>
           (save_args # NoArgs /\ ctrl_train_args # NoArgs)

\* the second iteration has saved and trained on a ranking that reordered
\* its pool
C19_Witness ==
    /\ ctrl_step = 2
    /\ pc = "controller_generate_step"
    /\ saved_keys = <<1, 2>>
    /\ Len(save_args.arches) = 2
    /\ save_args.arches # arch_pool
    /\ ctrl_train_args.arches = save_args.arches
    /\ ctrl_train_args.perf = save_args.perf

\* C20: whenever no child scope is active, before and after every
\* train_children and eval_children call and after a call that raised, the
\* trainer's model is the shared model set at construction (reference 0);
\* an active scope holds that shared model as the one to restore, so it is
\* never replaced.
C20_SharedModelOutsideScope ==
    /\ ~env.active => model = 0
    /\ env.active => (env.old_model = 0 /\ model # 0)
    /\ pc \in {"loop_test", "init_arch_pool", "train_children",
               "eval_children", "rank", "save_arches", "controller_train_step",
               "controller_generate_step", "incr", "done", "raised"}
           => ~env.active

\* in the second step a validation raised inside the evaluation scope, and
\* the run ended with the shared model as the trainer's model
C20_Witness ==
    /\ pc = "raised"
    /\ error = "ValidateError"
    /\ ctrl_step = 2
    /\ entry_snapshot.child # 0
    /\ ~entry_snapshot.train
    /\ ~env.active
    /\ model = 0

\* cls.TaskName: the class's own attribute when a registration has set it,
\* else the attribute of the class it derives from; TextTask.TaskName is ''
\* (the empty set)
RECURSIVE TaskNameOf(_)
TaskNameOf(cls) ==
    IF cls = 0 THEN {}
    ELSE IF TaskName[cls] # {} THEN TaskName[cls]
    ELSE TaskNameOf(cls - 1)

\* C21: after any successful and failed registrations every entry of the
\* registry satisfies AllTasks[name].TaskName == name: get_task(name) returns
\* a class whose TaskName is the name it was looked up by, also when one
\* class is registered under two names or a registered class derives from
\* another registered class.
C21_TaskNameIsKey ==
    \A name \in DOMAIN AllTasks : TaskNameOf(get_task(name)) = {name}

\* the same, for the entries whose class is registered under one name only
C21_SingleNameEntries ==
    \A name \in DOMAIN AllTasks :
        (\A other \in DOMAIN AllTasks :
             AllTasks[other] = AllTasks[name] => other = name)
        => TaskNameOf(get_task(name)) = {name}

====
